---- MODULE Spec2Model ----
(***************************************************************************)
(* TalentScout hiring assistant (src/app.py): the conversation state       *)
(* machine driven by user turns, the field extractors it applies, the      *)
(* question generator, and the retry loop of the remote completion client. *)
(*                                                                         *)
(* A text is a sequence of chunks.  Every text the program inspects (user  *)
(* input, candidate values, model replies, the client's error strings) is  *)
(* a sequence of one-character strings, so that lower-casing, substring    *)
(* search and the regular expressions are computed character by character. *)
(* Fixed assistant texts that the program only stores are kept as a single *)
(* chunk holding the whole text.                                           *)
(***************************************************************************)
EXTENDS Integers, Sequences, FiniteSets, TLC

\* ------------------------------------------------------------ characters

\* Characters outside ASCII are named tokens.
EM_DASH == "EM_DASH"
BULLET == "BULLET"

UPPER ==
    <<"A", "B", "C", "D", "E", "F", "G", "H", "I", "J", "K", "L", "M",
      "N", "O", "P", "Q", "R", "S", "T", "U", "V", "W", "X", "Y", "Z">>
LOWER ==
    <<"a", "b", "c", "d", "e", "f", "g", "h", "i", "j", "k", "l", "m",
      "n", "o", "p", "q", "r", "s", "t", "u", "v", "w", "x", "y", "z">>
DIGITS == <<"0", "1", "2", "3", "4", "5", "6", "7", "8", "9">>

Range(s) == {s[i] : i \in DOMAIN s}
UpperSet == Range(UPPER)
LowerSet == Range(LOWER)
DigitSet == Range(DIGITS)

LowerOf == [c \in UpperSet |-> LOWER[CHOOSE i \in DOMAIN UPPER : UPPER[i] = c]]
UpperOf == [c \in LowerSet |-> UPPER[CHOOSE i \in DOMAIN LOWER : LOWER[i] = c]]

IsSpace(c) == c \in {" ", "\t", "\n", "\r"}
IsDigit(c) == c \in DigitSet
IsAlpha(c) == c \in UpperSet \cup LowerSet
ToLower(c) == IF c \in UpperSet THEN LowerOf[c] ELSE c
ToUpper(c) == IF c \in LowerSet THEN UpperOf[c] ELSE c

\* F(x) with x evaluated once, however often F uses it.
Let(x, F(_)) == CHOOSE v \in {F(a) : a \in {x}} : TRUE

SetMax(S) == CHOOSE x \in S : \A y \in S : y <= x
SetMin(S) == CHOOSE x \in S : \A y \in S : x <= y

\* ------------------------------------------------------------ str methods

\* str.lower()
lower(s) == [i \in DOMAIN s |-> ToLower(s[i])]

\* str.strip(): leading and trailing whitespace removed
strip(s) ==
    Let({i \in DOMAIN s : ~IsSpace(s[i])}, LAMBDA keep :
        IF keep = {} THEN <<>> ELSE SubSeq(s, SetMin(keep), SetMax(keep)))

\* str.title(): a letter that follows a letter is lower-cased, any other
\* letter is upper-cased
title(s) ==
    [i \in DOMAIN s |->
        IF i > 1 /\ IsAlpha(s[i - 1]) THEN ToLower(s[i]) ELSE ToUpper(s[i])]

\* `sub in s`
Contains(s, sub) ==
    \E i \in 1..(Len(s) - Len(sub) + 1) : SubSeq(s, i, i + Len(sub) - 1) = sub

\* str(int) for a non-negative integer
RECURSIVE IntToText(_)
IntToText(n) ==
    IF n < 10 THEN <<DIGITS[n + 1]>>
    ELSE IntToText(n \div 10) \o <<DIGITS[(n % 10) + 1]>>

\* ------------------------------------------------------------ regex pieces

\* The index of the last character of the longest run of characters
\* satisfying P that starts at i (i - 1 when s[i] does not satisfy P).
RunEnd(s, i, P(_)) ==
    Let(i, LAMBDA from :
        SetMax({from - 1} \cup {j \in from..Len(s) : \A k \in from..j : P(s[k])}))

\* A literal matched at i under re.I (lit is written in lower case).
MatchLit(s, i, lit) ==
    /\ i >= 1
    /\ i + Len(lit) - 1 <= Len(s)
    /\ \A k \in DOMAIN lit : ToLower(s[i + k - 1]) = lit[k]

\* Literals joined by \s+, matched at i: the index after the match, 0 if none.
RECURSIVE MatchWords(_, _, _)
MatchWords(s, i, words) ==
    IF ~MatchLit(s, i, Head(words)) THEN 0
    ELSE LET after == i + Len(Head(words))
         IN  IF Len(words) = 1 THEN after
             ELSE Let(RunEnd(s, after, IsSpace), LAMBDA ws :
                    IF ws < after THEN 0
                    ELSE MatchWords(s, ws + 1, Tail(words)))

\* The first of the alternatives (each a list of literals joined by \s+)
\* that matches at i: the index after the match, 0 if none.
RECURSIVE MatchAlt(_, _, _)
MatchAlt(s, i, alts) ==
    IF alts = <<>> THEN 0
    ELSE Let(MatchWords(s, i, Head(alts)), LAMBDA e :
            IF e # 0 THEN e ELSE MatchAlt(s, i, Tail(alts)))

\* ------------------------------------------------------------ literals
KW_bye ==
    <<"b", "y", "e">>
KW_exit ==
    <<"e", "x", "i", "t">>
KW_end ==
    <<"e", "n", "d">>
KW_stop ==
    <<"s", "t", "o", "p">>
KW_quit ==
    <<"q", "u", "i", "t">>
KW_thank_you ==
    <<"t", "h", "a", "n", "k", " ", "y", "o", "u">>
KW_thanks ==
    <<"t", "h", "a", "n", "k", "s">>
W_my ==
    <<"m", "y">>
W_name ==
    <<"n", "a", "m", "e">>
W_is ==
    <<"i", "s">>
W_i ==
    <<"i">>
W_am ==
    <<"a", "m">>
W_im ==
    <<"i", "'", "m">>
W_looking ==
    <<"l", "o", "o", "k", "i", "n", "g">>
W_for ==
    <<"f", "o", "r">>
W_applying ==
    <<"a", "p", "p", "l", "y", "i", "n", "g">>
W_interested ==
    <<"i", "n", "t", "e", "r", "e", "s", "t", "e", "d">>
W_in ==
    <<"i", "n">>
W_targeting ==
    <<"t", "a", "r", "g", "e", "t", "i", "n", "g">>
W_role ==
    <<"r", "o", "l", "e">>
W_of ==
    <<"o", "f">>
W_position ==
    <<"p", "o", "s", "i", "t", "i", "o", "n">>
W_years ==
    <<"y", "e", "a", "r", "s">>
W_yrs ==
    <<"y", "r", "s">>
W_yoe ==
    <<"y", "o", "e">>
W_year ==
    <<"y", "e", "a", "r">>
MSG_MISSING_KEY ==
    <<"M", "i", "s", "s", "i", "n", "g", " ", "O", "P", "E", "N", "R", "O", "U", "T", "E", "R",
      "_", "A", "P", "I", "_", "K", "E", "Y", ".">>
MSG_NETWORK_ERROR ==
    <<"N", "e", "t", "w", "o", "r", "k", " ", "e", "r", "r", "o", "r", " ", "c", "o", "n", "t",
      "a", "c", "t", "i", "n", "g", " ", "t", "h", "e", " ", "m", "o", "d", "e", "l", ".">>
MSG_UNEXPECTED_FORMAT ==
    <<"U", "n", "e", "x", "p", "e", "c", "t", "e", "d", " ", "r", "e", "s", "p", "o", "n", "s",
      "e", " ", "f", "o", "r", "m", "a", "t", ".">>
API_ERROR_OPEN ==
    <<"A", "P", "I", " ", "e", "r", "r", "o", "r", " ", "(">>
API_ERROR_CLOSE ==
    <<")", ":", " ">>
U_JANE ==
    <<"M", "y", " ", "n", "a", "m", "e", " ", "i", "s", " ", "J", "a", "n", "e", " ", "D", "o",
      "e", ",", " ", "I", "'", "m", " ", "a", "p", "p", "l", "y", "i", "n", "g", " ", "f", "o",
      "r", " ", "B", "a", "c", "k", "e", "n", "d", " ", "E", "n", "g", "i", "n", "e", "e", "r">>
U_THANKS ==
    <<"T", "h", "a", "n", "k", "s">>
U_ALL ==
    <<"I", "'", "m", " ", "A", "l", " ", "R", "o", "e", ",", " ", "t", "a", "r", "g", "e", "t",
      "i", "n", "g", " ", "Q", "A", " ", "a", "@", "b", ".", "i", "o", " ", "1", "2", "3", "4",
      "5", "6", "7", "8", "9", " ", "5", " ", "y", "r", "s">>
U_SQL ==
    <<"S", "Q", "L", "\n">>
BODY_DOWN ==
    <<"d", "o", "w", "n">>
BODY_WHY ==
    <<"B", "u", "s", "y", ",", " ", "r", "e", "t", "r", "y", "?">>
R_THREE ==
    <<"[", "\"", "A", "?", "\"", ",", " ", "\"", "B", "?", "\"", ",", " ", "\"", "C", "?",
      "\"", "]">>
R_FOUR ==
    <<"[", "\"", "A", "?", "\"", ",", "\"", "B", "?", "\"", ",", "\"", "C", "?", "\"", ",",
      "\"", "D", "?", "\"", "]">>
R_ONE ==
    <<"[", "\"", "A", "?", "\"", "]">>
R_EMPTY ==
    <<"[", "]">>
R_LINES ==
    <<"-", " ", "A", "?", "\n", "-", " ", "B", "?">>
R_PROSE ==
    <<"S", "o", "r", "r", "y", ".">>
R_TAB ==
    <<"\t", "-", " ", "A", "?", "\n", "-", " ", "B", "?">>
R_MIXED ==
    <<"S", "u", "r", "e", ":", "\n", "-", " ", "A", "?", "\n", "B", "?", "\n", "D", "o", "n",
      "e", ".">>
R_BLANKS ==
    <<"[", "\"", "A", "?", "\"", ",", " ", "\"", " ", "\"", ",", " ", "\"", " ", "B", "?", " ",
      "\"", "]">>

\* ------------------------------------------------------------ extractors

IsNameChar(c) == IsAlpha(c) \/ c \in {"'", "_", "-"}
IsAlnum(c) == IsAlpha(c) \/ IsDigit(c)
IsLocalChar(c) == IsAlnum(c) \/ c \in {".", "_", "%", "+", "-"}
IsDomainChar(c) == IsAlnum(c) \/ c \in {".", "-"}
IsPhoneChar(c) == IsDigit(c) \/ c = "-" \/ IsSpace(c)
NotNewline(c) == c # "\n"

\* i\s*am at i: the index after the match, 0 if none.
MatchIAm(s, i) ==
    IF ~MatchLit(s, i, W_i) THEN 0
    ELSE Let(RunEnd(s, i + 1, IsSpace), LAMBDA ws :
            IF MatchLit(s, ws + 1, W_am) THEN ws + 1 + Len(W_am) ELSE 0)

\* (?:my\s+name\s+is|i\s*am|i\'m) at i: the index after the match, 0 if none.
\* The alternatives differ in their first two characters, so at most one
\* of them matches at a given index.
NameIntro(s, i) ==
    Let(MatchWords(s, i, <<W_my, W_name, W_is>>), LAMBDA a :
        IF a # 0 THEN a
        ELSE Let(MatchIAm(s, i), LAMBDA b :
            IF b # 0 THEN b
            ELSE IF MatchLit(s, i, W_im) THEN i + Len(W_im) ELSE 0))

\* [A-Za-z][A-Za-z'_\-]+ at i: the index of its last character, 0 if none.
WordEnd(s, i) ==
    IF i >= 1 /\ i <= Len(s) /\ IsAlpha(s[i])
    THEN Let(RunEnd(s, i + 1, IsNameChar), LAMBDA e : IF e > i THEN e ELSE 0)
    ELSE 0

\* (?:\s+word){0,k} after a word ending at e: the index of the last character.
RECURSIVE MoreWords(_, _, _)
MoreWords(s, e, k) ==
    Let(RunEnd(s, e + 1, IsSpace), LAMBDA ws :
        Let(WordEnd(s, ws + 1), LAMBDA w :
            IF k = 0 \/ ws <= e \/ w = 0 THEN e ELSE MoreWords(s, w, k - 1)))

\* The name pattern of extract_name matched at i: <<first, last>> of group 1,
\* <<>> if it does not match at i.
NameGroupAt(s, i) ==
    Let(NameIntro(s, i), LAMBDA p :
        IF p = 0 THEN <<>>
        ELSE Let(RunEnd(s, p, IsSpace), LAMBDA ws :
            IF ws < p THEN <<>>
            ELSE Let(WordEnd(s, ws + 1), LAMBDA w1 :
                IF w1 = 0 THEN <<>>
                ELSE Let(MoreWords(s, w1, 3), LAMBDA last :
                    IF last = w1 THEN <<>> ELSE <<ws + 1, last>>))))

\* The first match of a pattern: Group(At(text, i)) for the least index i
\* at which At(text, i) is not NoMatch, "" when there is none.
FirstMatch(text, At(_, _), NoMatch, Group(_, _)) ==
    Let({i \in DOMAIN text : At(text, i) # NoMatch}, LAMBDA starts :
        IF starts = {} THEN <<>>
        ELSE Let(SetMin(starts), LAMBDA i : Group(i, At(text, i))))

\* extract_name: re.search of the name pattern, group 1 stripped and
\* title-cased; "" when there is no match.
extract_name(text) ==
    FirstMatch(text, NameGroupAt, <<>>,
               LAMBDA i, g : title(strip(SubSeq(text, g[1], g[2]))))

POSITION_INTROS ==
    << <<W_looking, W_for>>, <<W_applying, W_for>>, <<W_interested, W_in>>,
       <<W_targeting>>, <<W_role, W_of>>, <<W_position, W_of>> >>

\* The position pattern matched at i: <<first, last>> of group 1 (.+, to
\* the end of the line), <<>> if it does not match at i with a group that
\* holds a non-blank character.
PositionGroupAt(s, i) ==
    Let(MatchAlt(s, i, POSITION_INTROS), LAMBDA p :
        IF p = 0 THEN <<>>
        ELSE Let(RunEnd(s, p, IsSpace), LAMBDA ws :
            IF ws < p \/ ws + 1 > Len(s) THEN <<>>
            ELSE <<ws + 1, RunEnd(s, ws + 1, NotNewline)>>))

\* extract_position: re.search of the position pattern, group 1 stripped;
\* "" when there is no match.
extract_position(text) ==
    FirstMatch(text, PositionGroupAt, <<>>,
               LAMBDA i, g : strip(SubSeq(text, g[1], g[2])))

\* EMAIL_RE matched at i: the index of the last character, 0 if none.  The
\* local part is the run up to "@"; the domain gives back characters until
\* a "." followed by at least two letters is left.
EmailEndAt(s, i) ==
    IF ~IsLocalChar(s[i]) THEN 0
    ELSE Let(RunEnd(s, i, IsLocalChar), LAMBDA le :
        IF le + 1 > Len(s) \/ s[le + 1] # "@" THEN 0
        ELSE Let(RunEnd(s, le + 2, IsDomainChar), LAMBDA de :
            Let({d \in (le + 3)..de :
                    s[d] = "." /\ RunEnd(s, d + 1, IsAlpha) >= d + 2},
                LAMBDA dots :
                    IF dots = {} THEN 0
                    ELSE RunEnd(s, SetMax(dots) + 1, IsAlpha))))

\* extract_email: the first match of EMAIL_RE, "" when there is none.
extract_email(text) ==
    FirstMatch(text, EmailEndAt, 0, LAMBDA i, e : SubSeq(text, i, e))

\* PHONE_RE matched at i: the index of the last character, 0 if none.
PhoneEndAt(s, i) ==
    Let(IF s[i] = "+" THEN i + 1 ELSE i, LAMBDA d1 :
        IF d1 > Len(s) \/ ~IsDigit(s[d1]) THEN 0
        ELSE Let(RunEnd(s, d1 + 1, IsPhoneChar), LAMBDA re :
            Let({j \in (d1 + 8)..re : IsDigit(s[j])}, LAMBDA ends :
                IF ends = {} THEN 0 ELSE SetMax(ends))))

\* extract_phone: the first match of PHONE_RE stripped, "" when there is none.
extract_phone(text) ==
    FirstMatch(text, PhoneEndAt, 0, LAMBDA i, e : strip(SubSeq(text, i, e)))

YOE_UNITS == << <<W_years>>, <<W_yrs>>, <<W_yoe>>, <<W_year>> >>

\* YOE_RE matched at i: the index of the last character, 0 if none.
YoeEndAt(s, i) ==
    IF ~IsDigit(s[i]) THEN 0
    ELSE Let(RunEnd(s, i, IsDigit), LAMBDA b :
        Let(IF b + 2 <= Len(s) /\ s[b + 1] = "." /\ IsDigit(s[b + 2])
            THEN RunEnd(s, b + 2, IsDigit) ELSE b,
            LAMBDA numEnd :
                Let(MatchAlt(s, RunEnd(s, numEnd + 1, IsSpace) + 1, YOE_UNITS),
                    LAMBDA u :
                        IF u = 0 THEN 0
                        ELSE IF MatchLit(s, u, <<"s">>) THEN u ELSE u - 1)))

\* extract_yoe: the first match of YOE_RE (number and unit), "" when there
\* is none.
extract_yoe(text) ==
    FirstMatch(text, YoeEndAt, 0, LAMBDA i, e : SubSeq(text, i, e))

\* ------------------------------------------------------------ configuration

NUM_TECH_QUESTIONS == 3
EXIT_KEYWORDS ==
    {KW_bye, KW_exit, KW_end, KW_stop, KW_quit, KW_thank_you, KW_thanks}

\* The keyword test without .lower().
has_exit_keyword_case_sensitive(text) ==
    \E kw \in EXIT_KEYWORDS : Contains(text, kw)

\* any(kw in user_input.lower() for kw in EXIT_KEYWORDS)
has_exit_keyword(text) == \E kw \in EXIT_KEYWORDS : Contains(lower(text), kw)

REQUIRED_FIELDS ==
    <<"full_name", "desired_positions", "email", "phone", "years_experience",
      "location", "tech_stack">>
FIELD_ORDER == REQUIRED_FIELDS
Fields == Range(REQUIRED_FIELDS)

\* Python's None, where an index is expected.
None == -1

\* next_unfilled_after with a range that stops before the last field.
next_unfilled_after_short(c, start_index) ==
    LET open == {idx \in start_index..(Len(FIELD_ORDER) - 2) :
                    strip(c[FIELD_ORDER[idx + 1]]) = <<>>}
    IN  IF open = {} THEN None ELSE SetMin(open)

\* next_unfilled_after incrementing blindly: the next index, filled or not.
next_unfilled_after_blind(c, start_index) ==
    IF start_index < Len(FIELD_ORDER) THEN start_index ELSE None

\* next_unfilled_after falling back to the last index instead of None.
next_unfilled_after_clamped(c, start_index) ==
    LET open == {idx \in start_index..(Len(FIELD_ORDER) - 1) :
                    strip(c[FIELD_ORDER[idx + 1]]) = <<>>}
    IN  IF open = {} THEN Len(FIELD_ORDER) - 1 ELSE SetMin(open)

\* next_unfilled_after: the first index >= start_index (0-based) of a field
\* whose stripped value is empty, None if there is none.
next_unfilled_after(c, start_index) ==
    LET open == {idx \in start_index..(Len(FIELD_ORDER) - 1) :
                    strip(c[FIELD_ORDER[idx + 1]]) = <<>>}
    IN  IF open = {} THEN None ELSE SetMin(open)

field_prompt(field_key) ==
    CASE field_key = "full_name" -> <<"What's your full name?">>
      [] field_key = "desired_positions" -> <<"Which position(s) are you targeting?">>
      [] field_key = "email" -> <<"Please share your email address.">>
      [] field_key = "phone" -> <<"What's the best phone number to reach you?">>
      [] field_key = "years_experience" -> <<"How many years of experience do you have?">>
      [] field_key = "location" -> <<"What's your current location (city, country)?">>
      [] field_key = "tech_stack" ->
            <<"List your tech stack (languages, frameworks, databases, tools).">>

\* The prefix for st.session_state.sentiment_label.
sentiment_prefix(label) ==
    CASE label = "positive" -> <<"Great ", EM_DASH>>
      [] label = "neutral" -> <<"Thanks ", EM_DASH>>
      [] label = "negative" -> <<"Thanks for sharing ", EM_DASH>>
      [] OTHER -> <<"Thanks ", EM_DASH>>

\* The system prompt is sent and stored, never inspected: one chunk.
SYSTEM_PROMPT == <<"SYSTEM_PROMPT">>
GREETING ==
    <<"Hello! I'm the Hiring Assistant for TalentScout. I'll gather your details and ask a few technical questions.",
      "\n", "\n",
      "To start, what's your full name and which position(s) are you targeting?">>
CLOSING ==
    <<"Thank you for your time! Your information has been noted, and our team will review it shortly. Best of luck!">>
\* Line 314: the notice rendered before the questions are generated.
ELLIPSIS == "ELLIPSIS"
GENERATING == <<"Generating technical questions based on your tech stack", ELLIPSIS>>

\* ------------------------------------------------------------ completion client

RETRY_DEFAULT == 2
TRANSIENT_STATUS == {408, 429, 500, 502, 503, 504}

\* What one requests.post can do: raise requests.RequestException, or return
\* a response.  A response carries its status, its text, and what
\* resp.json()["choices"][0]["message"]["content"] evaluates to: "raises"
\* (not JSON, or not that shape), "null" (a JSON value that is no string),
\* or "text" with the string in content.
Exc == [kind |-> "exception", status |-> 0, text |-> <<>>, shape |-> "raises", content |-> <<>>]
Resp(status, text, shape, content) ==
    [kind |-> "response", status |-> status, text |-> text, shape |-> shape,
     content |-> content]
Ok(content) == Resp(200, content, "text", content)

\* resp.ok
ResponseOk(resp) == resp.status < 400

\* A returned Python value: a str, or None.
Str(text) == [type |-> "str", value |-> text]
PyNone == [type |-> "NoneType", value |-> <<>>]

\* The loop pass with the retry test off by one (attempt <= retry + 1).
LoopPass_one_more(attempt_before, retry, o) ==
    LET attempt == attempt_before + 1
        Continue == [done |-> FALSE, attempt |-> attempt, ret |-> PyNone]
        Return(v) == [done |-> TRUE, attempt |-> attempt, ret |-> v]
    IN  IF o.kind = "exception"
        THEN IF attempt <= retry + 1 THEN Continue
             ELSE Return(Str(MSG_NETWORK_ERROR))
        ELSE IF ~ResponseOk(o)
        THEN IF attempt <= retry + 1 /\ o.status \in TRANSIENT_STATUS
             THEN Continue
             ELSE Return(Str(API_ERROR_OPEN \o IntToText(o.status)
                                \o API_ERROR_CLOSE \o o.text))
        ELSE IF o.shape = "raises" THEN Return(Str(MSG_UNEXPECTED_FORMAT))
        ELSE IF o.shape = "null" THEN Return(PyNone)
        ELSE Return(Str(o.content))

\* The loop pass retrying every non-success status while attempts remain.
LoopPass_retry_any_status(attempt_before, retry, o) ==
    LET attempt == attempt_before + 1
        Continue == [done |-> FALSE, attempt |-> attempt, ret |-> PyNone]
        Return(v) == [done |-> TRUE, attempt |-> attempt, ret |-> v]
    IN  IF o.kind = "exception"
        THEN IF attempt <= retry THEN Continue ELSE Return(Str(MSG_NETWORK_ERROR))
        ELSE IF ~ResponseOk(o)
        THEN IF attempt <= retry
             THEN Continue
             ELSE Return(Str(API_ERROR_OPEN \o IntToText(o.status)
                                \o API_ERROR_CLOSE \o o.text))
        ELSE IF o.shape = "raises" THEN Return(Str(MSG_UNEXPECTED_FORMAT))
        ELSE IF o.shape = "null" THEN Return(PyNone)
        ELSE Return(Str(o.content))

\* One pass through the body of `while True` with `attempt` as it was
\* before the pass and o the outcome of requests.post: either the loop
\* continues, or the function returns ret.
LoopPass(attempt_before, retry, o) ==
    LET attempt == attempt_before + 1
        Continue == [done |-> FALSE, attempt |-> attempt, ret |-> PyNone]
        Return(v) == [done |-> TRUE, attempt |-> attempt, ret |-> v]
    IN  IF o.kind = "exception"
        THEN IF attempt <= retry THEN Continue ELSE Return(Str(MSG_NETWORK_ERROR))
        ELSE IF ~ResponseOk(o)
        THEN IF attempt <= retry /\ o.status \in TRANSIENT_STATUS
             THEN Continue
             ELSE Return(Str(API_ERROR_OPEN \o IntToText(o.status)
                                \o API_ERROR_CLOSE \o o.text))
        ELSE IF o.shape = "raises" THEN Return(Str(MSG_UNEXPECTED_FORMAT))
        ELSE IF o.shape = "null" THEN Return(PyNone)
        ELSE Return(Str(o.content))

\* The outcome of the a-th requests.post under a transport script; the
\* transport repeats its last outcome.
OutcomeAt(transport, a) ==
    transport[IF a <= Len(transport) THEN a ELSE Len(transport)]

RECURSIVE RetryLoop(_, _, _)
RetryLoop(attempt, retry, transport) ==
    Let(LoopPass(attempt, retry, OutcomeAt(transport, attempt + 1)), LAMBDA p :
        IF p.done THEN [ret |-> p.ret, posts |-> p.attempt]
        ELSE RetryLoop(p.attempt, retry, transport))

\* call_openrouter_chat: the value returned and the number of HTTP posts
\* made, with has_key saying whether OPENROUTER_API_KEY is non-empty.
call_openrouter_chat(has_key, retry, transport) ==
    IF ~has_key THEN [ret |-> Str(MSG_MISSING_KEY), posts |-> 0]
    ELSE RetryLoop(0, retry, transport)

\* ------------------------------------------------------------ question generator

\* str.splitlines() for the line ends \n, \r and \r\n.
RECURSIVE splitlines(_)
splitlines(s) ==
    IF s = <<>> THEN <<>>
    ELSE Let({i \in DOMAIN s : s[i] \in {"\n", "\r"}}, LAMBDA brk :
            IF brk = {} THEN <<s>>
            ELSE Let(SetMin(brk), LAMBDA b :
                Let(IF s[b] = "\r" /\ b < Len(s) /\ s[b + 1] = "\n"
                    THEN SubSeq(s, b + 2, Len(s)) ELSE SubSeq(s, b + 1, Len(s)),
                    LAMBDA rest : <<SubSeq(s, 1, b - 1)>> \o splitlines(rest))))

\* str.strip(chars): leading and trailing characters of the set removed
strip_chars(s, chars) ==
    Let({i \in DOMAIN s : s[i] \notin chars}, LAMBDA keep :
        IF keep = {} THEN <<>> ELSE SubSeq(s, SetMin(keep), SetMax(keep)))

\* The elements of a JSON array of strings read from index i (after "[" or
\* after a comma): [ok, items].  Strings hold no escapes; a text that is
\* not of this form is no JSON array of the replies modelled.
RECURSIVE JsonElements(_, _, _)
JsonElements(s, i, items) ==
    LET NotQuote(c) == c # "\"" /\ c # "\\"
        Fail == [ok |-> FALSE, items |-> <<>>]
    IN  Let(RunEnd(s, i, IsSpace) + 1, LAMBDA a :
        IF a > Len(s) \/ s[a] # "\"" THEN Fail
        ELSE Let(RunEnd(s, a + 1, NotQuote) + 1, LAMBDA close :
            IF close > Len(s) \/ s[close] # "\"" THEN Fail
            ELSE Let(RunEnd(s, close + 1, IsSpace) + 1, LAMBDA b :
                Let(Append(items, SubSeq(s, a + 1, close - 1)), LAMBDA got :
                    IF b > Len(s) THEN Fail
                    ELSE IF s[b] = "," THEN JsonElements(s, b + 1, got)
                    ELSE IF s[b] = "]" /\ b = Len(s)
                    THEN [ok |-> TRUE, items |-> got]
                    ELSE Fail))))

\* json.loads(text) when it yields a list: [ok, items].
JsonList(s) ==
    IF s = <<>> \/ s[1] # "[" THEN [ok |-> FALSE, items |-> <<>>]
    ELSE Let(RunEnd(s, 2, IsSpace) + 1, LAMBDA a :
            IF a = Len(s) /\ s[a] = "]" THEN [ok |-> TRUE, items |-> <<>>]
            ELSE JsonElements(s, 2, <<>>))

\* _extract_questions_from_text: the elements of a JSON list, stringified
\* and stripped, the empty ones dropped; otherwise the lines holding "?",
\* stripped of "-", bullets and blanks at both ends.
_extract_questions_from_text(text) ==
    LET HasMark(l) == Contains(l, <<"?">>)
        NonEmpty(x) == strip(x) # <<>>
    IN  Let(JsonList(strip(text)), LAMBDA parsed :
        IF parsed.ok
        THEN Let(SelectSeq(parsed.items, NonEmpty), LAMBDA kept :
                [k \in DOMAIN kept |-> strip(kept[k])])
        ELSE Let(SelectSeq(splitlines(text), HasMark), LAMBDA marked :
                [k \in DOMAIN marked |->
                    strip_chars(marked[k], {"-", BULLET, " "})]))

\* generate_questions_for_stack: the call's reply parsed and cut to n.
\* "raised" is TRUE when the reply is no string (text.splitlines() raises
\* AttributeError).
generate_questions_for_stack(tech_stack, n, has_key, transport) ==
    Let(call_openrouter_chat(has_key, RETRY_DEFAULT, transport).ret, LAMBDA raw :
        IF raw.type # "str" THEN [raised |-> TRUE, qs |-> <<>>]
        ELSE Let(_extract_questions_from_text(raw.value), LAMBDA qs :
            [raised |-> FALSE,
             qs |-> SubSeq(qs, 1, IF Len(qs) < n THEN Len(qs) ELSE n)]))

\* ------------------------------------------------------------ inputs

\* Bounds of the model.
MaxTurns == 9
MaxRetry == 3

\* What the user types in a turn.
Utterances == {U_JANE, U_THANKS, U_ALL, U_SQL}

\* What the remote service does during one call of the question generator:
\* whether the key is configured, and the transport's outcomes in order.
Unavailable == Resp(503, BODY_DOWN, "raises", <<>>)
GenInputs ==
    {[has_key |-> FALSE, transport |-> <<Exc>>]} \cup
    {[has_key |-> TRUE, transport |-> t] : t \in
        { <<Ok(R_THREE)>>, <<Ok(R_FOUR)>>, <<Ok(R_ONE)>>, <<Ok(R_EMPTY)>>,
          <<Ok(R_LINES)>>, <<Ok(R_PROSE)>>,
          <<Exc>>, <<Unavailable>>, <<Unavailable, Unavailable, Ok(R_THREE)>>,
          <<Resp(404, BODY_WHY, "raises", <<>>)>>,
          <<Resp(200, BODY_DOWN, "raises", <<>>)>>,
          <<Resp(200, BODY_DOWN, "null", <<>>)>> }}

\* What one requests.post can do, for the client on its own.
Statuses == {400, 404, 408, 429, 500, 501, 502, 503, 504}
Outcomes ==
    {Exc, Ok(R_ONE), Resp(200, BODY_DOWN, "raises", <<>>),
     Resp(200, BODY_DOWN, "null", <<>>)} \cup
    {Resp(s, BODY_DOWN, "raises", <<>>) : s \in Statuses}

\* analyze_sentiment: the label of the external classifier, a fixed function
\* of the utterance.
analyze_sentiment(text) == IF text = U_THANKS THEN "positive" ELSE "neutral"

\* What the handler computes from the user input, once per utterance.
Extracted ==
    [u \in Utterances |->
        Let(strip(u), LAMBDA text :
            [exit |-> has_exit_keyword(u),
             text |-> text,
             name |-> extract_name(text),
             position |-> extract_position(text),
             email |-> extract_email(text),
             phone |-> extract_phone(text),
             yoe |-> extract_yoe(text),
             label |-> analyze_sentiment(u)])]

\* What the question generator returns, once per behaviour of the service.
Generated ==
    [g \in GenInputs |->
        [raw |-> call_openrouter_chat(g.has_key, RETRY_DEFAULT, g.transport).ret,
         out |-> generate_questions_for_stack(<<>>, NUM_TECH_QUESTIONS, g.has_key,
                                              g.transport)]]

\* ------------------------------------------------------------ state

VARIABLES
    stage,            \* st.session_state.stage
    collected,        \* st.session_state.collected
    current_index,    \* st.session_state.current_index (0-based)
    questions,        \* st.session_state.questions
    q_index,          \* st.session_state.q_index (0-based)
    messages,         \* st.session_state.messages
    sentiment_label,  \* st.session_state.sentiment_label
    user_input,       \* the input of the last script run
    fault,            \* the exception that ended the last script run, or "none"
    gen_log,          \* the raw reply of every call of the question generator
    rendered,         \* what the last script run rendered as the assistant
    cl_pc,            \* call_openrouter_chat on its own: where it is
    cl_key,           \*   whether OPENROUTER_API_KEY is set
    cl_retry,         \*   the retry argument
    attempt,          \*   the local variable attempt
    cl_log,           \*   the outcome of every requests.post made, in order
    cl_ret,           \*   the value returned
    gn_pc,            \* generate_questions_for_stack on its own: where it is
    gn_in,            \*   the key and what the service does
    gn_n,             \*   the argument n
    gn_raw,           \*   the local variable raw
    gn_qs             \*   the list returned

convVars ==
    <<stage, collected, current_index, questions, q_index, messages,
      sentiment_label, user_input, fault, gen_log, rendered>>
clientVars == <<cl_pc, cl_key, cl_retry, attempt, cl_log, cl_ret>>
genVars == <<gn_pc, gn_in, gn_n, gn_raw, gn_qs>>
vars == <<convVars, clientVars, genVars>>

Msg(role, content) == [role |-> role, content |-> content]
Turns == Cardinality({i \in DOMAIN messages : messages[i].role = "user"})

InitConversation ==
    /\ messages = <<Msg("system", SYSTEM_PROMPT), Msg("assistant", GREETING)>>
    /\ collected = [k \in Fields |-> <<>>]
    /\ stage = "collecting_info"
    /\ questions = <<>>
    /\ q_index = 0
    /\ current_index = 0
    /\ sentiment_label = "neutral"
    /\ user_input = <<>>
    /\ fault = "none"
    /\ gen_log = <<>>
    /\ rendered = <<>>

InitClient ==
    /\ cl_pc = "start"
    /\ attempt = 0
    /\ cl_log = <<>>
    /\ cl_ret = PyNone

\* The generator on its own is not running.
InitGenerator ==
    /\ gn_pc = "idle"
    /\ gn_in = [has_key |-> TRUE, transport |-> <<>>]
    /\ gn_n = NUM_TECH_QUESTIONS
    /\ gn_raw = PyNone
    /\ gn_qs = <<>>

Init ==
    /\ InitConversation
    /\ InitClient
    /\ InitGenerator
    /\ cl_key = TRUE
    /\ cl_retry = RETRY_DEFAULT

\* ------------------------------------------------------------ the user turn

\* The field steps with the desired_positions step taking a name too.
FillField_rename(c, key, x) ==
    CASE key = "full_name" ->
            LET name == IF x.name # <<>> THEN x.name ELSE x.text
                c1 == IF name # <<>> THEN [c EXCEPT !["full_name"] = name] ELSE c
            IN  IF x.position # <<>> /\ c1["desired_positions"] = <<>>
                THEN [c1 EXCEPT !["desired_positions"] = x.position]
                ELSE c1
      [] key = "desired_positions" ->
            LET pos == IF x.position # <<>> THEN x.position ELSE x.text
                c1 == IF pos # <<>> THEN [c EXCEPT !["desired_positions"] = pos] ELSE c
            IN  IF x.name # <<>> THEN [c1 EXCEPT !["full_name"] = x.name] ELSE c1
      [] key = "email" ->
            IF x.email # <<>> THEN [c EXCEPT !["email"] = x.email] ELSE c
      [] key = "phone" ->
            IF x.phone # <<>> THEN [c EXCEPT !["phone"] = x.phone] ELSE c
      [] key = "years_experience" ->
            LET yoe == IF x.yoe # <<>> THEN x.yoe ELSE x.text
            IN  IF yoe # <<>> THEN [c EXCEPT !["years_experience"] = yoe] ELSE c
      [] key = "location" ->
            IF x.text # <<>> THEN [c EXCEPT !["location"] = x.text] ELSE c
      [] key = "tech_stack" ->
            IF x.text # <<>> THEN [c EXCEPT !["tech_stack"] = x.text] ELSE c

\* The field steps with the full_name step taking the email too.
FillField_eager(c, key, x) ==
    CASE key = "full_name" ->
            LET name == IF x.name # <<>> THEN x.name ELSE x.text
                c1 == IF name # <<>> THEN [c EXCEPT !["full_name"] = name] ELSE c
                c2 == IF x.position # <<>> /\ c1["desired_positions"] = <<>>
                      THEN [c1 EXCEPT !["desired_positions"] = x.position]
                      ELSE c1
            IN  IF x.email # <<>> THEN [c2 EXCEPT !["email"] = x.email] ELSE c2
      [] key = "desired_positions" ->
            LET pos == IF x.position # <<>> THEN x.position ELSE x.text
            IN  IF pos # <<>> THEN [c EXCEPT !["desired_positions"] = pos] ELSE c
      [] key = "email" ->
            IF x.email # <<>> THEN [c EXCEPT !["email"] = x.email] ELSE c
      [] key = "phone" ->
            IF x.phone # <<>> THEN [c EXCEPT !["phone"] = x.phone] ELSE c
      [] key = "years_experience" ->
            LET yoe == IF x.yoe # <<>> THEN x.yoe ELSE x.text
            IN  IF yoe # <<>> THEN [c EXCEPT !["years_experience"] = yoe] ELSE c
      [] key = "location" ->
            IF x.text # <<>> THEN [c EXCEPT !["location"] = x.text] ELSE c
      [] key = "tech_stack" ->
            IF x.text # <<>> THEN [c EXCEPT !["tech_stack"] = x.text] ELSE c

\* Lines 282-302: the candidate record after the step for the field key.
FillField(c, key, x) ==
    CASE key = "full_name" ->
            LET name == IF x.name # <<>> THEN x.name ELSE x.text
                c1 == IF name # <<>> THEN [c EXCEPT !["full_name"] = name] ELSE c
            IN  IF x.position # <<>> /\ c1["desired_positions"] = <<>>
                THEN [c1 EXCEPT !["desired_positions"] = x.position]
                ELSE c1
      [] key = "desired_positions" ->
            LET pos == IF x.position # <<>> THEN x.position ELSE x.text
            IN  IF pos # <<>> THEN [c EXCEPT !["desired_positions"] = pos] ELSE c
      [] key = "email" ->
            IF x.email # <<>> THEN [c EXCEPT !["email"] = x.email] ELSE c
      [] key = "phone" ->
            IF x.phone # <<>> THEN [c EXCEPT !["phone"] = x.phone] ELSE c
      [] key = "years_experience" ->
            LET yoe == IF x.yoe # <<>> THEN x.yoe ELSE x.text
            IN  IF yoe # <<>> THEN [c EXCEPT !["years_experience"] = yoe] ELSE c
      [] key = "location" ->
            IF x.text # <<>> THEN [c EXCEPT !["location"] = x.text] ELSE c
      [] key = "tech_stack" ->
            IF x.text # <<>> THEN [c EXCEPT !["tech_stack"] = x.text] ELSE c

\* Lines 272-275: an exit keyword ends the conversation.
ExitBranch(said) ==
    /\ stage' = "finished"
    /\ messages' = said \o <<Msg("assistant", CLOSING)>>
    /\ rendered' = <<CLOSING>>
    /\ fault' = "none"
    /\ UNCHANGED <<collected, current_index, questions, q_index, gen_log>>

\* Lines 312-319: all fields are filled; the questions are generated and
\* the first one is asked.  qs[0] raises IndexError on an empty list, and
\* the generator raises AttributeError on a reply that is no string; the
\* script run ends there, with what was assigned before.
StartQuestions(said, c, label) ==
    \E g \in GenInputs :
        LET gen == Generated[g]
            notice == sentiment_prefix(label) \o <<" ">> \o GENERATING
        IN  /\ stage' = "asking_questions"
            /\ collected' = c
            /\ gen_log' = Append(gen_log, gen.raw)
            /\ UNCHANGED current_index
            /\ IF gen.out.raised
               THEN /\ fault' = "AttributeError"
                    /\ messages' = said
                    /\ rendered' = <<notice>>
                    /\ UNCHANGED <<questions, q_index>>
               ELSE /\ questions' = gen.out.qs
                    /\ q_index' = 0
                    /\ IF gen.out.qs = <<>>
                       THEN /\ fault' = "IndexError"
                            /\ messages' = said
                            /\ rendered' = <<notice>>
                       ELSE /\ fault' = "none"
                            /\ messages' = said \o <<Msg("assistant", gen.out.qs[1])>>
                            /\ rendered' = <<notice, gen.out.qs[1]>>

\* The field step prompting for the next field without storing its index.
CollectBranch_stays(said, x) ==
    LET idx == current_index
        key == FIELD_ORDER[idx + 1]
        c == FillField(collected, key, x)
        nxt == next_unfilled_after(c, idx + 1)
        Prompt(k) == sentiment_prefix(x.label) \o <<" ">> \o field_prompt(k)
    IN  IF c[key] = <<>>
        THEN /\ messages' = said
             /\ rendered' = <<Prompt(key)>>
             /\ collected' = c
             /\ fault' = "none"
             /\ UNCHANGED <<stage, current_index, questions, q_index, gen_log>>
        ELSE IF nxt # None
        THEN /\ collected' = c
             /\ messages' = said \o <<Msg("assistant", Prompt(FIELD_ORDER[nxt + 1]))>>
             /\ rendered' = <<Prompt(FIELD_ORDER[nxt + 1])>>
             /\ fault' = "none"
             /\ UNCHANGED <<stage, current_index, questions, q_index, gen_log>>
        ELSE StartQuestions(said, c, x.label)

\* The field step advancing to the next field although the current one is
\* still empty.
CollectBranch_advances(said, x) ==
    LET idx == current_index
        key == FIELD_ORDER[idx + 1]
        c == FillField(collected, key, x)
        nxt == next_unfilled_after(c, idx + 1)
        Prompt(k) == sentiment_prefix(x.label) \o <<" ">> \o field_prompt(k)
    IN  IF nxt # None
        THEN /\ current_index' = nxt
             /\ collected' = c
             /\ messages' = said \o <<Msg("assistant", Prompt(FIELD_ORDER[nxt + 1]))>>
             /\ rendered' = <<Prompt(FIELD_ORDER[nxt + 1])>>
             /\ fault' = "none"
             /\ UNCHANGED <<stage, questions, q_index, gen_log>>
        ELSE StartQuestions(said, c, x.label)

\* Lines 276-319: one field step.
CollectBranch(said, x) ==
    LET idx == current_index
        key == FIELD_ORDER[idx + 1]
        c == FillField(collected, key, x)
        nxt == next_unfilled_after(c, idx + 1)
        Prompt(k) == sentiment_prefix(x.label) \o <<" ">> \o field_prompt(k)
    IN  IF c[key] = <<>>
        THEN /\ messages' = said
             /\ rendered' = <<Prompt(key)>>
             /\ collected' = c
             /\ fault' = "none"
             /\ UNCHANGED <<stage, current_index, questions, q_index, gen_log>>
        ELSE IF nxt # None
        THEN /\ current_index' = nxt
             /\ collected' = c
             /\ messages' = said \o <<Msg("assistant", Prompt(FIELD_ORDER[nxt + 1]))>>
             /\ rendered' = <<Prompt(FIELD_ORDER[nxt + 1])>>
             /\ fault' = "none"
             /\ UNCHANGED <<stage, questions, q_index, gen_log>>
        ELSE StartQuestions(said, c, x.label)

\* The answer branch asking the question at the old index again.
AskBranch_repeat(said) ==
    /\ q_index' = q_index + 1
    /\ IF q_index + 1 < Len(questions)
       THEN /\ messages' = said \o <<Msg("assistant", questions[q_index + 1])>>
            /\ rendered' = <<questions[q_index + 1]>>
            /\ UNCHANGED stage
       ELSE /\ stage' = "finished"
            /\ messages' = said
            /\ rendered' = <<CLOSING>>
    /\ fault' = "none"
    /\ UNCHANGED <<collected, current_index, questions, gen_log>>

\* The answer branch starting the collection over when the questions run out.
AskBranch_restart(said) ==
    /\ q_index' = q_index + 1
    /\ IF q_index + 1 < Len(questions)
       THEN /\ messages' = said \o <<Msg("assistant", questions[q_index + 2])>>
            /\ rendered' = <<questions[q_index + 2]>>
            /\ UNCHANGED stage
       ELSE /\ stage' = "collecting_info"
            /\ messages' = said
            /\ rendered' = <<CLOSING>>
    /\ fault' = "none"
    /\ UNCHANGED <<collected, current_index, questions, gen_log>>

\* Lines 321-329: the answer to a question.
AskBranch(said) ==
    /\ q_index' = q_index + 1
    /\ IF q_index + 1 < Len(questions)
       THEN /\ messages' = said \o <<Msg("assistant", questions[q_index + 2])>>
            /\ rendered' = <<questions[q_index + 2]>>
            /\ UNCHANGED stage
       ELSE /\ stage' = "finished"
            /\ messages' = said
            /\ rendered' = <<CLOSING>>
    /\ fault' = "none"
    /\ UNCHANGED <<collected, current_index, questions, gen_log>>

\* Lines 258-270: a script run with the user input u starts: the sentiment
\* label is set and the input is appended to the history.
RunStarts(u) ==
    /\ Turns < MaxTurns
    /\ user_input' = u
    /\ sentiment_label' = Extracted[u].label
    /\ UNCHANGED <<clientVars, genVars>>
Said(u) == Append(messages, Msg("user", u))

\* Lines 258-329, one script run with a user input, by the branch taken.
ExitTurn(u) ==
    /\ RunStarts(u)
    /\ Extracted[u].exit
    /\ ExitBranch(Said(u))

CollectTurn(u) ==
    /\ RunStarts(u)
    /\ ~Extracted[u].exit
    /\ stage = "collecting_info"
    /\ CollectBranch(Said(u), Extracted[u])

AnswerTurn(u) ==
    /\ RunStarts(u)
    /\ ~Extracted[u].exit
    /\ stage = "asking_questions"
    /\ AskBranch(Said(u))

\* A run in stage finished answering with the closing message.
FinishedTurn_closes(u) ==
    /\ RunStarts(u)
    /\ ~Extracted[u].exit
    /\ stage \notin {"collecting_info", "asking_questions"}
    /\ messages' = Said(u) \o <<Msg("assistant", CLOSING)>>
    /\ rendered' = <<CLOSING>>
    /\ fault' = "none"
    /\ UNCHANGED <<stage, collected, current_index, questions, q_index, gen_log>>

\* No branch of the if/elif chain is taken once the stage is finished.
FinishedTurn(u) ==
    /\ RunStarts(u)
    /\ ~Extracted[u].exit
    /\ stage \notin {"collecting_info", "asking_questions"}
    /\ messages' = Said(u)
    /\ rendered' = <<>>
    /\ fault' = "none"
    /\ UNCHANGED <<stage, collected, current_index, questions, q_index, gen_log>>

UserTurn(u) == ExitTurn(u) \/ CollectTurn(u) \/ AnswerTurn(u) \/ FinishedTurn(u)

Next == \E u \in Utterances : UserTurn(u)

Spec == Init /\ [][Next]_vars

\* ------------------------------------------------------------ the client alone

\* Line 53-64: the credential check, then the loop is entered.
ClientEnter ==
    /\ cl_pc = "start"
    /\ IF ~cl_key
       THEN /\ cl_pc' = "returned"
            /\ cl_ret' = Str(MSG_MISSING_KEY)
       ELSE /\ cl_pc' = "loop"
            /\ UNCHANGED cl_ret
    /\ attempt' = 0
    /\ UNCHANGED <<cl_key, cl_retry, cl_log, convVars, genVars>>

\* Lines 65-85: one pass through the loop, o being what requests.post does.
ClientPass(o) ==
    LET p == LoopPass(attempt, cl_retry, o)
    IN  /\ cl_pc = "loop"
        /\ attempt' = p.attempt
        /\ cl_log' = Append(cl_log, o)
        /\ IF p.done
           THEN /\ cl_pc' = "returned"
                /\ cl_ret' = p.ret
           ELSE UNCHANGED <<cl_pc, cl_ret>>
        /\ UNCHANGED <<cl_key, cl_retry, convVars, genVars>>

NextClient == ClientEnter \/ \E o \in Outcomes : ClientPass(o)

\* The call's arguments: any retry count, the key set or not.
InitCall ==
    /\ InitConversation
    /\ InitClient
    /\ InitGenerator
    /\ cl_key \in BOOLEAN
    /\ cl_retry \in 0..MaxRetry

SpecClient == InitCall /\ [][NextClient]_vars

\* ------------------------------------------------------------ the generator alone

\* The largest n the generator is called with.
MaxN == 4

\* What the service does during a call of the generator on its own: the
\* behaviours of GenInputs and three more replies.
ReplyInputs ==
    GenInputs \cup
    {[has_key |-> TRUE, transport |-> <<Ok(r)>>] : r \in {R_TAB, R_MIXED, R_BLANKS}}

\* Lines 142-150: one call of generate_questions_for_stack.
GenerateRun ==
    LET raw == call_openrouter_chat(gn_in.has_key, RETRY_DEFAULT, gn_in.transport).ret
        out == generate_questions_for_stack(<<>>, gn_n, gn_in.has_key, gn_in.transport)
    IN  /\ gn_pc = "start"
        /\ gn_raw' = raw
        /\ gn_qs' = out.qs
        /\ gn_pc' = IF out.raised THEN "raised" ELSE "returned"
        /\ UNCHANGED <<gn_in, gn_n, convVars, clientVars>>

NextGenerator == GenerateRun

InitGenerate ==
    /\ InitConversation
    /\ InitClient
    /\ cl_key = TRUE
    /\ cl_retry = RETRY_DEFAULT
    /\ gn_pc = "start"
    /\ gn_in \in ReplyInputs
    /\ gn_n \in 0..MaxN
    /\ gn_raw = PyNone
    /\ gn_qs = <<>>

SpecGenerator == InitGenerate /\ [][NextGenerator]_vars

\* ------------------------------------------------------------ properties

Last(seq) == seq[Len(seq)]
AllFilled == \A k \in Fields : collected[k] # <<>>
NoneFilled == \A k \in Fields : collected[k] = <<>>

StageRank(s) ==
    CASE s = "collecting_info" -> 0
      [] s = "asking_questions" -> 1
      [] s = "finished" -> 2

\* C1: the stage only moves forward along collecting_info ->
\* asking_questions -> finished: no step takes it from asking_questions to
\* collecting_info, nor from finished to either of the other two.
C1_StageOnlyMovesForward == [][StageRank(stage') >= StageRank(stage)]_vars

\* A session that answered all its questions and then took one more turn.
C1_Witness ==
    /\ stage = "finished"
    /\ Len(questions) >= 1
    /\ q_index = Len(questions)
    /\ messages[Len(messages)].role = "user"
    /\ messages[Len(messages) - 1].role = "user"

\* The utterances that hold one of the exit keywords, in any case.
C2_Keywords ==
    {KW_bye, KW_exit, KW_end, KW_stop, KW_quit, KW_thank_you, KW_thanks}
C2_ExitUtterances ==
    {u \in Utterances :
        \E kw \in C2_Keywords : \E i \in 1..Len(u) :
            /\ i + Len(kw) - 1 <= Len(u)
            /\ \A k \in DOMAIN kw : ToLower(u[i + k - 1]) = kw[k]}

\* C2: whatever the stage, after a turn whose utterance holds an exit
\* keyword as a substring (in any case) the stage is finished.
C2_ExitKeywordFinishes ==
    [][(messages' # messages /\ user_input' \in C2_ExitUtterances)
            => stage' = "finished"]_vars

\* An exit keyword sent while questions were still open.
C2_Witness ==
    /\ stage = "finished"
    /\ user_input \in C2_ExitUtterances
    /\ Len(questions) >= 1
    /\ q_index < Len(questions)
    /\ Last(messages) = Msg("assistant", CLOSING)

\* C3: when the generator returns no question on the turn that fills the
\* last field, the stage becomes finished and the turn does not fault on
\* the first element of the empty list.
C3_EmptyQuestionListFinishes ==
    (gen_log # <<>> /\ gen_log[1].type = "str" /\ questions = <<>>)
        => (stage = "finished" /\ fault = "none")

\* C4: while the stage is asking_questions, q_index is an index of the
\* question list (which is then not empty).
C4_QuestionIndexInBounds ==
    stage = "asking_questions" => q_index < Len(questions)

\* The replies of call_openrouter_chat that report a failed remote call.
C5_IsFailure(raw) ==
    /\ raw.type = "str"
    /\ \/ raw.value \in {MSG_MISSING_KEY, MSG_NETWORK_ERROR, MSG_UNEXPECTED_FORMAT}
       \/ /\ Len(raw.value) >= Len(API_ERROR_OPEN)
          /\ SubSeq(raw.value, 1, Len(API_ERROR_OPEN)) = API_ERROR_OPEN

\* C5: a failed remote call during question generation leaves the session
\* state consistent: the turn does not fault, and q_index stays an index of
\* the question list while the stage is asking_questions.
C5_RemoteFailureKeepsStateConsistent ==
    (gen_log # <<>> /\ C5_IsFailure(Last(gen_log)))
        => /\ fault = "none"
           /\ stage = "asking_questions" => q_index < Len(questions)

\* C6: the turn that fills the last empty field moves the stage from
\* collecting_info to asking_questions; the stage is never collecting_info
\* with all seven fields filled, and never collecting_info again once left.
C6_AllFilledLeavesCollecting ==
    [][/\ AllFilled' => stage' # "collecting_info"
       /\ stage # "collecting_info" => stage' # "collecting_info"
       /\ (stage = "collecting_info" /\ ~AllFilled /\ AllFilled')
            => stage' = "asking_questions"]_vars

\* All seven fields filled, the questions being asked.
C6_Witness == AllFilled /\ stage = "asking_questions"

C7_JANE_DOE ==
    <<"J", "a", "n", "e", " ", "D", "o", "e">>
C7_BACKEND_ENGINEER ==
    <<"B", "a", "c", "k", "e", "n", "d", " ", "E", "n", "g", "i", "n", "e", "e", "r">>

\* C7: at the full_name step with nothing collected, the turn "My name is
\* Jane Doe, I'm applying for Backend Engineer" sets full_name to "Jane Doe"
\* and desired_positions to "Backend Engineer", stays in collecting_info and
\* moves current_index to email (2).
C7_NameAndPositionInOneTurn ==
    [][(/\ stage = "collecting_info"
        /\ current_index = 0
        /\ NoneFilled
        /\ messages' # messages
        /\ user_input' = U_JANE)
            => /\ collected'["full_name"] = C7_JANE_DOE
               /\ collected'["desired_positions"] = C7_BACKEND_ENGINEER
               /\ stage' = "collecting_info"
               /\ current_index' = 2]_vars

\* The statuses the claims name as transient.
C9_Transient == {408, 429, 500, 502, 503, 504}
IsRetryable(o) ==
    o.kind = "exception" \/ (o.kind = "response" /\ o.status \in C9_Transient)
IsSuccessText(o) == o.kind = "response" /\ o.status < 400 /\ o.shape = "text"

\* C8: the call makes at most 1 + retry HTTP attempts whatever the mixture
\* of outcomes; it gives up on a network failure or a transient status only
\* when all 1 + retry attempts are used; and a success response with valid
\* content on any of these attempts is returned as the content.
C8_AttemptBudgetAndSuccess ==
    /\ Len(cl_log) <= cl_retry + 1
    /\ (cl_pc = "returned" /\ cl_log # <<>> /\ IsRetryable(Last(cl_log)))
            => Len(cl_log) = cl_retry + 1
    /\ (cl_log # <<>> /\ IsSuccessText(Last(cl_log)))
            => (cl_pc = "returned" /\ cl_ret = Str(Last(cl_log).content))

\* 503, 503, then 200 with valid content, with retry = 2.
C8_Witness ==
    /\ cl_retry = 2
    /\ cl_log = <<Unavailable, Unavailable, Ok(R_ONE)>>
    /\ cl_pc = "returned"
    /\ cl_ret = Str(R_ONE)

\* C9: a non-success status is retried exactly when it is one of 408, 429,
\* 500, 502, 503, 504 and attempts remain; any other non-success status,
\* and a transient one on the last allowed attempt, ends the call on that
\* attempt with "API error (<status>): <body>".
C9_StatusRetryPolicy ==
    \A a \in DOMAIN cl_log :
        (cl_log[a].kind = "response" /\ cl_log[a].status >= 400)
            => IF cl_log[a].status \in C9_Transient /\ a <= cl_retry
               THEN a < Len(cl_log) \/ cl_pc = "loop"
               ELSE /\ a = Len(cl_log)
                    /\ cl_pc = "returned"
                    /\ cl_ret = Str(API_ERROR_OPEN \o IntToText(cl_log[a].status)
                                        \o API_ERROR_CLOSE \o cl_log[a].text)

C9_ERROR_503 ==
    <<"A", "P", "I", " ", "e", "r", "r", "o", "r", " ", "(", "5", "0", "3", ")", ":",
      " ", "d", "o", "w", "n">>

\* A transient status on the last allowed attempt: the error string.
C9_Witness ==
    /\ cl_retry = 2
    /\ cl_log = <<Unavailable, Unavailable, Unavailable>>
    /\ cl_pc = "returned"
    /\ cl_ret = Str(C9_ERROR_503)

\* C10: the call always returns a string: the missing-credential message
\* after no HTTP attempt when no key is set, the network-error message
\* after network failures on all 1 + retry attempts, the unexpected-format
\* message on a success status without the expected shape.
C10_AlwaysReturnsString ==
    cl_pc = "returned" =>
        /\ cl_ret.type = "str"
        /\ ~cl_key => (cl_ret = Str(MSG_MISSING_KEY) /\ cl_log = <<>>)
        /\ (/\ Len(cl_log) = cl_retry + 1
            /\ \A a \in DOMAIN cl_log : cl_log[a].kind = "exception")
                => cl_ret = Str(MSG_NETWORK_ERROR)
        /\ (/\ cl_log # <<>>
            /\ Last(cl_log).kind = "response"
            /\ Last(cl_log).status < 400
            /\ Last(cl_log).shape = "raises")
                => cl_ret = Str(MSG_UNEXPECTED_FORMAT)

\* The first n entries of a list.
FirstN(seq, n) == SubSeq(seq, 1, IF Len(seq) < n THEN Len(seq) ELSE n)

\* A line without its leading bullet markers and whitespace.
C11_StripLeading(l) ==
    LET keep == {i \in DOMAIN l : l[i] \notin {"-", BULLET, " ", "\t", "\r", "\n"}}
    IN  IF keep = {} THEN <<>> ELSE SubSeq(l, SetMin(keep), Len(l))

\* The parsed reply as the claim describes it.
C11_Parsed(reply) ==
    LET NonEmpty(x) == strip(x) # <<>>
        HasMark(l) == \E i \in DOMAIN l : l[i] = "?"
        array == JsonList(strip(reply))
        kept == SelectSeq(array.items, NonEmpty)
        marked == SelectSeq(splitlines(reply), HasMark)
    IN  IF array.ok
        THEN [k \in DOMAIN kept |-> strip(kept[k])]
        ELSE [k \in DOMAIN marked |-> C11_StripLeading(marked[k])]

\* C11: generate_questions_for_stack(stack, n) returns at most n strings,
\* the first n entries in order of the parsed reply: the trimmed non-empty
\* elements of a JSON array, otherwise the lines holding "?" with their
\* leading bullet markers and whitespace stripped.
C11_FirstNOfParsedReply ==
    gn_pc = "returned" =>
        /\ Len(gn_qs) <= gn_n
        /\ gn_qs = FirstN(C11_Parsed(gn_raw.value), gn_n)

\* The field asked at index i (0-based).
FieldAt(i) == FIELD_ORDER[i + 1]
\* A script run with a user input has been made in this step.
IsTurn == messages' # messages
\* The sentiment prefixes a prompt can start with.
Prefixed(text) ==
    {sentiment_prefix(l) \o <<" ">> \o text : l \in {"positive", "neutral", "negative"}}

\* C12: in collecting_info, when the field asked is still empty after a
\* turn without exit keyword, the turn leaves current_index, stage and the
\* whole candidate record unchanged and renders the prompt of that same
\* field.
C12_RepromptSameField ==
    [][(/\ IsTurn
        /\ stage = "collecting_info"
        /\ user_input' \notin C2_ExitUtterances
        /\ collected'[FieldAt(current_index)] = <<>>)
            => /\ current_index' = current_index
               /\ stage' = stage
               /\ collected' = collected
               /\ Len(rendered') = 1
               /\ rendered'[1] \in Prefixed(field_prompt(FieldAt(current_index)))]_vars

\* "SQL" at the email step: the email prompt again.
C12_Witness ==
    /\ stage = "collecting_info"
    /\ current_index = 2
    /\ collected["email"] = <<>>
    /\ user_input = U_SQL
    /\ Last(messages).role = "user"
    /\ rendered = <<sentiment_prefix("neutral") \o <<" ">> \o field_prompt("email")>>

\* current_index is the index of the first unfilled field.
C13_FirstUnfilled ==
    stage = "collecting_info" =>
        /\ current_index \in 0..(Len(FIELD_ORDER) - 1)
        /\ collected[FieldAt(current_index)] = <<>>
        /\ \A j \in 0..(current_index - 1) : collected[FieldAt(j)] # <<>>

\* C13: in every state with stage = collecting_info, current_index is the
\* index of the first unfilled field of the field order; a fill moves it to
\* the first unfilled field strictly after the current one.
C13_IndexIsFirstUnfilled ==
    [][/\ C13_FirstUnfilled
       /\ C13_FirstUnfilled'
       /\ (stage' = "collecting_info" /\ collected'[FieldAt(current_index)] # <<>>)
            => /\ current_index' > current_index
               /\ collected'[FieldAt(current_index')] = <<>>
               /\ \A j \in (current_index + 1)..(current_index' - 1) :
                      collected'[FieldAt(j)] # <<>>]_vars

\* The first turn filled name and position: the index skipped to email.
C13_Witness ==
    /\ stage = "collecting_info"
    /\ Turns = 1
    /\ current_index = 2
    /\ collected["desired_positions"] # <<>>

\* The fields a step changes.
Changed == {k \in Fields : collected'[k] # collected[k]}
\* Turns outside collecting_info, and exit turns, leave the record alone.
C14_OnlyWhileCollecting ==
    (stage # "collecting_info" \/ user_input' \in C2_ExitUtterances)
        => collected' = collected

\* C14: the candidate record is mutated only by turns processed while
\* stage = collecting_info, and each such turn changes at most one field;
\* turns in asking_questions or finished, and exit-keyword turns, leave
\* every field unchanged.
C14_OneFieldPerTurn ==
    [][C14_OnlyWhileCollecting /\ Cardinality(Changed) <= 1]_vars

\* C14 as amended: the same, except that the turn at the full_name step may
\* set desired_positions together with full_name.
C14_OneFieldPerStep ==
    [][/\ C14_OnlyWhileCollecting
       /\ \/ Cardinality(Changed) <= 1
          \/ /\ current_index = 0
             /\ Changed = {"full_name", "desired_positions"}]_vars

C14_AL_ROE ==
    <<"A", "l", " ", "R", "o", "e">>

\* The first turn set the name and the position together.
C14_Witness ==
    /\ Turns = 1
    /\ user_input = U_ALL
    /\ collected["full_name"] = C14_AL_ROE
    /\ collected["desired_positions"] # <<>>
    /\ \A k \in Fields \ {"full_name", "desired_positions"} : collected[k] = <<>>

\* With k >= 1 questions, the history ends with questions 0..q_index in
\* order, one per turn.
C15_AskedInOrder ==
    (stage = "asking_questions" /\ questions # <<>>) =>
        /\ q_index < Len(questions)
        /\ \A j \in 0..q_index :
              messages[Len(messages) - 2 * (q_index - j)]
                  = Msg("assistant", questions[j + 1])

\* C15: with k >= 1 questions generated and no exit keyword, question 0 is
\* emitted on the transition into asking_questions; each following turn
\* increments q_index by exactly 1 and emits the question at the new index,
\* so that questions 0..k-1 are emitted in order, once each; the k-th
\* answer moves the stage to finished with the closing message.
C15_QuestionsInOrder ==
    [][/\ C15_AskedInOrder'
       /\ (stage = "collecting_info" /\ stage' = "asking_questions"
                /\ questions' # <<>>)
            => /\ q_index' = 0
               /\ Last(rendered') = questions'[1]
       /\ (stage = "asking_questions" /\ questions # <<>>
                /\ user_input' \notin C2_ExitUtterances)
            => /\ questions' = questions
               /\ q_index' = q_index + 1
               /\ IF q_index + 1 < Len(questions)
                  THEN /\ stage' = "asking_questions"
                       /\ rendered' = <<questions[q_index + 2]>>
                  ELSE /\ stage' = "finished"
                       /\ rendered' = <<CLOSING>>]_vars

\* Three questions asked and answered: the closing message.
C15_Witness ==
    /\ stage = "finished"
    /\ Len(questions) = 3
    /\ q_index = 3
    /\ user_input \notin C2_ExitUtterances
    /\ rendered = <<CLOSING>>
    /\ messages[Len(messages) - 1] = Msg("assistant", questions[3])

\* C16: once the stage is finished, a turn without exit keyword changes
\* none of stage, candidate record, current_index, questions and q_index,
\* produces no assistant reply, and appends only the user message to the
\* history.
C16_FinishedTurnIsNoOp ==
    [][(stage = "finished" /\ user_input' \notin C2_ExitUtterances)
            => /\ UNCHANGED <<stage, collected, current_index, questions, q_index>>
               /\ rendered' = <<>>
               /\ messages' = Append(messages, Msg("user", user_input'))]_vars

\* A turn taken after the conversation finished.
C16_Witness ==
    /\ stage = "finished"
    /\ user_input = U_SQL
    /\ rendered = <<>>
    /\ Last(messages) = Msg("user", U_SQL)

\* C17: the history is append-only, and after every turn processed in
\* collecting_info or asking_questions, and after every exit-keyword turn,
\* its last entry is the assistant utterance emitted for that turn, which
\* follows the user's entry.
C17_HistoryRecordsEveryReply ==
    [][(/\ fault' = "none"
        /\ stage \in {"collecting_info", "asking_questions"}
              \/ user_input' \in C2_ExitUtterances)
            => /\ Len(messages') = Len(messages) + 2
               /\ SubSeq(messages', 1, Len(messages)) = messages
               /\ messages'[Len(messages) + 1] = Msg("user", user_input')
               /\ Last(messages') = Msg("assistant", Last(rendered'))]_vars

\* C18: a field of the candidate record that has become non-empty is never
\* changed again, whatever the later turns.
C18_FilledFieldsAreFinal ==
    [][\A k \in Fields : collected[k] # <<>> => collected'[k] = collected[k]]_vars

C18_SQL ==
    <<"S", "Q", "L">>

\* The name given first is kept through a later turn that names someone.
C18_Witness ==
    /\ stage = "collecting_info"
    /\ collected["full_name"] = C18_SQL
    /\ user_input = U_ALL
    /\ current_index >= 2

\* C19: the question generator is invoked at most once per session, only on
\* the turn that moves the stage from collecting_info to asking_questions
\* and only with all seven fields non-empty; in every state with stage =
\* asking_questions all seven fields are non-empty.
C19_GeneratorCalledOnce ==
    [][/\ Len(gen_log') <= 1
       /\ stage' = "asking_questions" => AllFilled'
       /\ gen_log' # gen_log
            => /\ Len(gen_log') = Len(gen_log) + 1
               /\ stage = "collecting_info"
               /\ stage' = "asking_questions"
               /\ AllFilled']_vars

\* A session whose only generation gave no question, one turn later.
C19_Witness ==
    /\ Len(gen_log) = 1
    /\ gen_log[1].type = "str"
    /\ questions = <<>>
    /\ stage = "finished"
    /\ user_input \notin C2_ExitUtterances

\* The assistant entries of the history.
Replies == Cardinality({i \in DOMAIN messages : messages[i].role = "assistant"})
\* Every turn so far was answered in the history (the greeting is the first
\* assistant entry): none held an exit keyword in asking_questions or
\* before, none was re-prompted.
C20_AllAccepted == Replies = Turns + 1

\* C20: when every turn holds no exit keyword and a value accepted for the
\* field asked, and k >= 1 questions are generated, the stage is finished
\* after at most 7 + k turns: t accepted turns in collecting_info leave
\* current_index >= t, the questions start after at most 7 turns, each
\* answer moves q_index on by one and the k-th answer finishes; a field step
\* does not repeat once its field is filled.
C20_FinishesWithinBound ==
    [][/\ (stage' = "collecting_info" /\ C20_AllAccepted')
            => Turns' <= current_index'
       /\ (stage' = "asking_questions" /\ questions' # <<>> /\ C20_AllAccepted')
            => (Turns' <= 7 + q_index' /\ q_index' < Len(questions'))
       /\ (stage = "asking_questions" /\ questions # <<>>
                /\ q_index + 1 = Len(questions)
                /\ user_input' \notin C2_ExitUtterances)
            => stage' = "finished"
       /\ (stage = "asking_questions" /\ questions # <<>> /\ C20_AllAccepted
                /\ stage' = "finished" /\ user_input' \notin C2_ExitUtterances)
            => Turns' <= 7 + Len(questions)
       /\ (stage = "collecting_info" /\ stage' = "collecting_info"
                /\ collected'[FieldAt(current_index)] # <<>>)
            => current_index' > current_index]_vars

\* Seven turns for the seven fields and k answers: the bound is reached.
C20_Witness ==
    /\ stage = "finished"
    /\ questions # <<>>
    /\ q_index = Len(questions)
    /\ Turns = 7 + Len(questions)
    /\ Replies = Turns
    /\ user_input \notin C2_ExitUtterances

====
